---- MODULE Spec2Model ----
(***************************************************************************)
(* Reservation lifecycle of the library API: createReservation,            *)
(* returnBook, the wallet service, forceDueDate and the overdue promotion  *)
(* sweep, over the three persisted collections (wallets, books,            *)
(* reservations).  Every awaited repository call is one step of a request, *)
(* so two requests interleave exactly at their persistence reads/writes.   *)
(* Money is counted in cents, time in ticks (TicksPerDay ticks per day).   *)
(***************************************************************************)
EXTENDS Integers, Sequences, FiniteSets, TLC

\* ------------------------------------------------------------------ bounds
MaxTime == 1
TicksPerDay == 2
MaxRes == 2
MaxBalance == 600
MaxLateDays == 3
MaxCalls == 4
MaxConcCalls == 3
MaxLimitCalls == 2
MaxFeeDays == 8
MaxSweepCalls == 3
MaxJobRuns == 2
MaxCopyCalls == 2

\* ------------------------------------------------------- program constants
RESERVATION_FEE == 300
LATE_FEE_PER_DAY == 20
STANDARD_BORROW_DAYS == 7
MaxBooksPerUser == 3
DefaultCopies == 4

\* ------------------------------------------------------------ fixed data
Procs == {"p1", "p2"}
Users == {"u1", "u2", "u3", "u4"}
UserIds == Users \cup {"ux"}
WalletOwners == {"u1", "u2"}
Books == {"b1", "b2"}
BookIds == Books \cup {"bx"}
\* the books a user may already hold when the borrow limit is exercised
HeldBooks == {"b3", "b4"}

userIsActive == [u \in Users |-> u # "u4"]
InitBalance == [u \in WalletOwners |-> IF u = "u1" THEN 600 ELSE 300]
bookTotal == [b \in Books |-> IF b = "b1" THEN 1 ELSE 2]
retailPrice == [b \in Books |-> IF b = "b1" THEN 40 ELSE 60]

DepositAmounts == {0, 300}
DeductAmounts == {0, 300}

VARIABLES now, walletDB, bookDB, reservationDB, pc, call, loc, pre, expected,
          lateCharged, calls

vars == <<now, walletDB, bookDB, reservationDB, pc, call, loc, pre, expected,
          lateCharged, calls>>

\* ---------------------------------------------------------- pure helpers
NoDate == << >>
Date(t) == <<t>>
HasDate(d) == d # << >>

\* Math.floor in the place of Math.ceil
FloorDays(ticks) == ticks \div TicksPerDay

\* Math.ceil(ticks / ticksPerDay) for any integer number of ticks
CeilDays(ticks) == -((-ticks) \div TicksPerDay)

Days(n) == n * TicksPerDay


\* ------------------------------------------------------------ Wallet (domain)
Ok(v) == [ok |-> TRUE, err |-> "", val |-> v]
Fail(msg, v) == [ok |-> FALSE, err |-> msg, val |-> v]

\* new Wallet(props): balance: props.balance || 0
WalletFromDoc(balance) == IF balance # 0 THEN balance ELSE 0

WalletDeposit(balance, amount) ==
    IF amount <= 0 THEN Fail("Deposit amount must be positive", balance)
    ELSE Ok(balance + amount)

\* withdraw without the funds check
WalletWithdrawUnchecked(balance, amount) ==
    IF amount <= 0 THEN Fail("Withdrawal amount must be positive", balance)
    ELSE Ok(balance - amount)

WalletWithdraw(balance, amount) ==
    IF amount <= 0 THEN Fail("Withdrawal amount must be positive", balance)
    ELSE IF balance < amount THEN Fail("Insufficient funds", balance)
    ELSE Ok(balance - amount)

HasEnoughFunds(balance, amount) == balance >= amount

\* -------------------------------------------------------------- Book (domain)
\* new Book(props): totalCopies: props.totalCopies || 4,
\*                  availableCopies: props.availableCopies || props.totalCopies || 4
BookFromDoc(doc) ==
    [totalCopies |-> IF doc.totalCopies # 0 THEN doc.totalCopies ELSE DefaultCopies,
     availableCopies |->
        IF doc.availableCopies # 0 THEN doc.availableCopies
        ELSE IF doc.totalCopies # 0 THEN doc.totalCopies
        ELSE DefaultCopies]

\* BookRepository.domainToDocument: the copy counts written back
BookToDoc(book) ==
    [totalCopies |-> book.totalCopies, availableCopies |-> book.availableCopies]

IsAvailable(book) == book.availableCopies > 0

BorrowCopy(book) ==
    IF ~IsAvailable(book) THEN Fail("No copies available for borrowing", book)
    ELSE Ok([book EXCEPT !.availableCopies = @ - 1])

\* returnCopy without the check against totalCopies
ReturnCopyUnchecked(book) == Ok([book EXCEPT !.availableCopies = @ + 1])

ReturnCopy(book) ==
    IF book.availableCopies >= book.totalCopies
    THEN Fail("Cannot return more copies than total", book)
    ELSE Ok([book EXCEPT !.availableCopies = @ + 1])

\* ------------------------------------------------------- Reservation (domain)
ActiveStatuses == {"PENDING", "ACTIVE", "LATE"}
FinalStatuses == {"RETURNED", "CONVERTED_TO_PURCHASE"}

NoReservation ==
    [userId |-> "", bookId |-> "", status |-> "", borrowDate |-> 0, dueDate |-> 0,
     returnDate |-> NoDate, fee |-> 0, lateFee |-> 0,
     reminderSent |-> FALSE, lateReminderSent |-> FALSE]

\* new Reservation(props): status || PENDING, fee || RESERVATION_FEE, lateFee || 0,
\* reminderSent || false, lateReminderSent || false
ReservationFromDoc(doc) ==
    [doc EXCEPT !.status = IF doc.status # "" THEN doc.status ELSE "PENDING",
                !.fee = IF doc.fee # 0 THEN doc.fee ELSE RESERVATION_FEE,
                !.lateFee = IF doc.lateFee # 0 THEN doc.lateFee ELSE 0]

CreateNew(userId, bookId, t) ==
    ReservationFromDoc(
        [userId |-> userId, bookId |-> bookId, status |-> "PENDING",
         borrowDate |-> t, dueDate |-> t + Days(STANDARD_BORROW_DAYS),
         returnDate |-> NoDate, fee |-> RESERVATION_FEE, lateFee |-> 0,
         reminderSent |-> FALSE, lateReminderSent |-> FALSE])

\* activate that leaves the status as it is
ActivateKeepsStatus(res) == Ok(res)

Activate(res) ==
    IF res.status # "PENDING"
    THEN Fail("Only pending reservations can be activated", res)
    ELSE Ok([res EXCEPT !.status = "ACTIVE"])

\* an amount of money: its value to the cent, and whether the double that holds it
\* is the double of that 2-decimal value
Amount(cents) == [cents |-> cents, exact |-> TRUE]

\* the days d for which the double product d * 0.2 is not the double of d / 5
\* (3 * 0.2 is 0.6000000000000001, 6 * 0.2 is 1.2000000000000002, ...)
InexactProducts == {3, 6, 7, 12, 14, 17, 19}

\* daysLate * LATE_FEE_PER_DAY in double arithmetic
TimesRate(d) == [cents |-> d * LATE_FEE_PER_DAY, exact |-> d \notin InexactProducts]

\* Math.round(x * 100) / 100
RoundCents(x) == Amount(x.cents)

\* the fee markAsReturned leaves in the reservation at time t
ReturnFee(res, t) ==
    IF t > res.dueDate THEN TimesRate(CeilDays(t - res.dueDate))
    ELSE Amount(res.lateFee)

\* the fee calculateCurrentLateFee returns at time t
CurrentLateFee(res, t) ==
    IF res.status \in {"RETURNED", "CONVERTED_TO_PURCHASE"} THEN Amount(res.lateFee)
    ELSE IF res.dueDate > t THEN Amount(0)
    ELSE RoundCents(TimesRate(CeilDays(t - res.dueDate)))

\* markAsReturned at time t: the late fee is daysLate * rate, neither rounded nor capped
MarkAsReturned(res, t) ==
    IF res.status \notin {"ACTIVE", "LATE"}
    THEN Fail("Only active or late reservations can be returned", res)
    ELSE Ok([res EXCEPT
              !.returnDate = Date(t),
              !.status = "RETURNED",
              !.lateFee = ReturnFee(res, t).cents])

\* calculateCurrentLateFee at time t (Math.round(x * 100) / 100 is exact on cents)
CalculateCurrentLateFee(res, t) == CurrentLateFee(res, t).cents

\* markAsLate without the fee
MarkAsLateKeepsFee(res, t) ==
    IF res.status \in FinalStatuses THEN res
    ELSE [res EXCEPT !.status = "LATE"]

MarkAsLate(res, t) ==
    IF res.status \in FinalStatuses THEN res
    ELSE [res EXCEPT !.status = "LATE",
                     !.lateFee = CalculateCurrentLateFee(res, t)]

\* markReminderSent without the flag
MarkReminderSentKeepsFlag(res) == res

MarkReminderSent(res) == [res EXCEPT !.reminderSent = TRUE]

MarkLateReminderSent(res) == [res EXCEPT !.lateReminderSent = TRUE]

\* convertToPurchase asking for a fee above the retail price
ConvertToPurchaseStrict(res, bookRetailPrice, t) ==
    IF res.status # "LATE"
    THEN Fail("Only late reservations can be converted to purchase", res)
    ELSE IF CeilDays(t - res.dueDate) * LATE_FEE_PER_DAY > bookRetailPrice
    THEN Ok([res EXCEPT !.status = "CONVERTED_TO_PURCHASE",
                        !.lateFee = bookRetailPrice])
    ELSE Fail("Late fees have not reached the retail price of the book yet", res)

ConvertToPurchase(res, bookRetailPrice, t) ==
    IF res.status # "LATE"
    THEN Fail("Only late reservations can be converted to purchase", res)
    ELSE IF CeilDays(t - res.dueDate) * LATE_FEE_PER_DAY >= bookRetailPrice
    THEN Ok([res EXCEPT !.status = "CONVERTED_TO_PURCHASE",
                        !.lateFee = bookRetailPrice])
    ELSE Fail("Late fees have not reached the retail price of the book yet", res)

\* ------------------------------------------------------------------ state
InitBooks == [b \in Books |-> [totalCopies |-> bookTotal[b], availableCopies |-> bookTotal[b]]]

\* seq and at: for a scheduled job, its place in the order of the requests and the
\* time at which it started
NoCall == [op |-> "", userId |-> "", bookId |-> "", rid |-> 0, amount |-> 0,
           dueDate |-> 0, result |-> "", seq |-> 0, at |-> 0, hex |-> "lower"]
\* sent: the notifications a scheduled job has dispatched, sentTo: the reservations
\* they were about; failed: it logged an error
NoLoc == [wallet |-> 0, book |-> [totalCopies |-> 0, availableCopies |-> 0],
          res |-> NoReservation, readCopies |-> 0, charged |-> 0, queue |-> << >>,
          sent |-> 0, sentTo |-> {}, failed |-> FALSE]
NoPre == [walletDB |-> InitBalance, bookDB |-> InitBooks, reservationDB |-> << >>]

Snapshot == [walletDB |-> walletDB, bookDB |-> bookDB, reservationDB |-> reservationDB]

DbError == "Database write failed"
EmailError == "Failed to send email"

Init ==
    /\ now = 0
    /\ walletDB = InitBalance
    /\ bookDB = InitBooks
    /\ reservationDB = << >>
    /\ pc = [p \in Procs |-> "idle"]
    /\ call = [p \in Procs |-> NoCall]
    /\ loc = [p \in Procs |-> NoLoc]
    /\ pre = [p \in Procs |-> NoPre]
    /\ expected = InitBalance
    /\ lateCharged = [r \in 1..MaxRes |-> 0]
    /\ calls = MaxCalls

db == <<walletDB, bookDB, reservationDB, expected, lateCharged>>

\* the request of p starts: its arguments are recorded and, when no other request is
\* in flight (none started, or each one over), the persisted state before the call
Enter(p, c, next) ==
    /\ pc[p] = "idle"
    /\ pc' = [pc EXCEPT ![p] = next]
    /\ call' = [call EXCEPT ![p] = c]
    /\ pre' = [pre EXCEPT ![p] = IF \A q \in Procs : pc[q] \in {"idle", "done"}
                                  THEN Snapshot ELSE NoPre]

Begin(p, c, next) ==
    /\ calls > 0
    /\ calls' = calls - 1
    /\ Enter(p, c, next)

\* the request of p ends and its caller sees result
End(p, result) ==
    /\ pc' = [pc EXCEPT ![p] = "done"]
    /\ call' = [call EXCEPT ![p].result = result]

Goto(p, next) ==
    /\ pc' = [pc EXCEPT ![p] = next]
    /\ UNCHANGED call

\* the caller takes the result; the slot is free for the next request
Return(p) ==
    /\ pc[p] = "done"
    /\ pc' = [pc EXCEPT ![p] = "idle"]
    /\ call' = [call EXCEPT ![p] = NoCall]
    /\ loc' = [loc EXCEPT ![p] = NoLoc]
    /\ pre' = [pre EXCEPT ![p] = NoPre]
    /\ UNCHANGED <<now, calls, db>>

Tick ==
    /\ now < MaxTime
    /\ now' = now + 1
    /\ UNCHANGED <<db, pc, call, loc, pre, calls>>

\* ------------------------------------------------- ReservationRepository reads
\* an id travels as a string of 24 hex digits; the ObjectId it is cast to does
\* not depend on the case of the digits, and ObjectId.toString() is in lower case
HexForms == {"lower", "upper"}
HexString(id) == <<id, "lower">>
\* the bookId string of the request c
BookIdOf(c) == <<c.bookId, c.hex>>

FindActiveReservationsByUserId(userId) ==
    {i \in DOMAIN reservationDB :
        /\ reservationDB[i].userId = userId
        /\ reservationDB[i].status \in ActiveStatuses}

\* ---------------------------------------- ReservationService.createReservation
CreatePcs == {"cBook", "cActive", "cWallet", "cWalletUpdate", "cBookUpdate", "cSave"}
CreatesInFlight == Cardinality({q \in Procs : pc[q] \in CreatePcs})
\* fewer than n reservations are persisted or about to be
RoomFor(n) == Len(reservationDB) + CreatesInFlight < n

\* userRepository.findById and the user guards, for a request with the bookId
\* written in the hex form f
StartCreateAs(p, u, b, f) ==
        /\ LET c == [NoCall EXCEPT !.op = "createReservation", !.userId = u, !.bookId = b,
                                   !.hex = f]
               result == IF u \notin Users THEN "User not found"
                         ELSE IF ~userIsActive[u] THEN "User account is not active"
                         ELSE ""
           IN IF result = ""
              THEN Begin(p, c, "cBook")
              ELSE Begin(p, [c EXCEPT !.result = result], "done")
        /\ UNCHANGED <<now, db, loc>>

StartCreate(p, u, b) == StartCreateAs(p, u, b, "lower")

\* bookRepository.findById and the availability guard
CreateFindBook(p) ==
    /\ pc[p] = "cBook"
    /\ LET b == call[p].bookId IN
       IF b \notin DOMAIN bookDB
       THEN End(p, "Book not found") /\ UNCHANGED loc
       ELSE LET book == BookFromDoc(bookDB[b]) IN
            IF ~IsAvailable(book)
            THEN End(p, "Book is not available for reservation") /\ UNCHANGED loc
            ELSE /\ Goto(p, "cActive")
                 /\ loc' = [loc EXCEPT ![p].book = book,
                                        ![p].readCopies = bookDB[b].availableCopies]
    /\ UNCHANGED <<now, calls, db, pre>>

\* the limit guard placed after the charge: the fee is written, then the call fails
CreateFindActiveAfterCharge(p) ==
    /\ pc[p] = "cActive"
    /\ LET active == FindActiveReservationsByUserId(call[p].userId) IN
       IF Cardinality(active) >= MaxBooksPerUser /\ call[p].userId \in DOMAIN walletDB
       THEN /\ End(p, "User has reached the maximum number of books allowed (3)")
            /\ walletDB' = [walletDB EXCEPT ![call[p].userId] = 0]
       ELSE /\ UNCHANGED walletDB
            /\ IF \E i \in active : HexString(reservationDB[i].bookId) = BookIdOf(call[p])
               THEN End(p, "User already has this book")
               ELSE Goto(p, "cWallet")
    /\ UNCHANGED <<now, calls, bookDB, reservationDB, expected, lateCharged, loc, pre>>

\* findActiveReservationsByUserId, the duplicate and the limit guards
CreateFindActive(p) ==
    /\ pc[p] = "cActive"
    /\ LET active == FindActiveReservationsByUserId(call[p].userId) IN
       IF \E i \in active : HexString(reservationDB[i].bookId) = BookIdOf(call[p])
       THEN End(p, "User already has this book")
       ELSE IF Cardinality(active) >= MaxBooksPerUser
       THEN End(p, "User has reached the maximum number of books allowed (3)")
       ELSE Goto(p, "cWallet")
    /\ UNCHANGED <<now, calls, db, loc, pre>>

\* walletRepository.findByUserId, the funds guard, Reservation.createNew, wallet.withdraw
CreateFindWallet(p) ==
    /\ pc[p] = "cWallet"
    /\ LET u == call[p].userId IN
       IF u \notin DOMAIN walletDB
       THEN End(p, "Wallet not found") /\ UNCHANGED loc
       ELSE LET balance == WalletFromDoc(walletDB[u]) IN
            IF ~HasEnoughFunds(balance, RESERVATION_FEE)
            THEN End(p, "Insufficient funds") /\ UNCHANGED loc
            ELSE LET w == WalletWithdraw(balance, RESERVATION_FEE) IN
                 IF ~w.ok
                 THEN End(p, w.err) /\ UNCHANGED loc
                 ELSE /\ Goto(p, "cWalletUpdate")
                      /\ loc' = [loc EXCEPT
                                   ![p].wallet = w.val,
                                   ![p].res = CreateNew(u, call[p].bookId, now)]
    /\ UNCHANGED <<now, calls, db, pre>>

\* walletRepository.update(wallet), then book.borrowCopy()
CreateUpdateWallet(p) ==
    /\ pc[p] = "cWalletUpdate"
    /\ \/ /\ walletDB' = [walletDB EXCEPT ![call[p].userId] = loc[p].wallet]
          /\ expected' = [expected EXCEPT ![call[p].userId] = @ - RESERVATION_FEE]
          /\ LET b == BorrowCopy(loc[p].book) IN
             IF ~b.ok
             THEN End(p, b.err) /\ UNCHANGED loc
             ELSE Goto(p, "cBookUpdate") /\ loc' = [loc EXCEPT ![p].book = b.val]
       \/ /\ End(p, DbError)
          /\ UNCHANGED <<walletDB, expected, loc>>
    /\ UNCHANGED <<now, calls, bookDB, reservationDB, lateCharged, pre>>

\* bookRepository.update(book), then reservation.activate()
CreateUpdateBook(p) ==
    /\ pc[p] = "cBookUpdate"
    /\ \/ /\ bookDB' = [bookDB EXCEPT ![call[p].bookId] = BookToDoc(loc[p].book)]
          /\ LET a == Activate(loc[p].res) IN
             IF ~a.ok
             THEN End(p, a.err) /\ UNCHANGED loc
             ELSE Goto(p, "cSave") /\ loc' = [loc EXCEPT ![p].res = a.val]
       \/ /\ End(p, DbError)
          /\ UNCHANGED <<bookDB, loc>>
    /\ UNCHANGED <<now, calls, walletDB, reservationDB, expected, lateCharged, pre>>

\* reservationRepository.save(reservation)
CreateSave(p) ==
    /\ pc[p] = "cSave"
    /\ \/ /\ reservationDB' = Append(reservationDB, loc[p].res)
          /\ pc' = [pc EXCEPT ![p] = "cEmail"]
          /\ call' = [call EXCEPT ![p].rid = Len(reservationDB) + 1]
       \/ /\ End(p, DbError)
          /\ UNCHANGED reservationDB
    /\ UNCHANGED <<now, calls, walletDB, bookDB, expected, lateCharged, loc, pre>>

\* emailService.sendReservationConfirmation, awaited inside the try block
CreateEmail(p) ==
    /\ pc[p] = "cEmail"
    /\ \/ End(p, "ok")
       \/ End(p, EmailError)
    /\ UNCHANGED <<now, calls, db, loc, pre>>

\* ------------------------------------------------ ReservationService.returnBook
ResIds == 1..MaxRes
LateFeeError(fee) == "Insufficient funds to pay late fee"

\* reservationRepository.findById, the finalized guard (whose error the catch block
\* turns into null), reservation.markAsReturned()
StartReturn(p, r) ==
        /\ LET c == [NoCall EXCEPT !.op = "returnBook", !.rid = r] IN
           IF r \notin DOMAIN reservationDB
           THEN Begin(p, [c EXCEPT !.result = "null"], "done") /\ UNCHANGED loc
           ELSE LET res == ReservationFromDoc(reservationDB[r]) IN
                IF res.status \in FinalStatuses
                THEN Begin(p, [c EXCEPT !.result = "null"], "done") /\ UNCHANGED loc
                ELSE LET m == MarkAsReturned(res, now) IN
                     IF ~m.ok
                     THEN Begin(p, [c EXCEPT !.result = m.err], "done") /\ UNCHANGED loc
                     ELSE /\ Begin(p, c, IF m.val.lateFee > 0 THEN "rWallet" ELSE "rBook")
                          /\ loc' = [loc EXCEPT ![p].res = m.val]
        /\ UNCHANGED <<now, db>>

\* walletRepository.findByUserId, wallet.withdraw(lateFee)
ReturnFindWallet(p) ==
    /\ pc[p] = "rWallet"
    /\ LET u == loc[p].res.userId IN
       IF u \notin DOMAIN walletDB
       THEN End(p, "Wallet not found for user") /\ UNCHANGED loc
       ELSE LET w == WalletWithdraw(WalletFromDoc(walletDB[u]), loc[p].res.lateFee) IN
            IF ~w.ok
            THEN End(p, LateFeeError(loc[p].res.lateFee)) /\ UNCHANGED loc
            ELSE Goto(p, "rWalletUpdate") /\ loc' = [loc EXCEPT ![p].wallet = w.val]
    /\ UNCHANGED <<now, calls, db, pre>>

\* walletRepository.update(wallet); a failure is rethrown as the late-fee error
ReturnUpdateWallet(p) ==
    /\ pc[p] = "rWalletUpdate"
    /\ \/ /\ walletDB' = [walletDB EXCEPT ![loc[p].res.userId] = loc[p].wallet]
          /\ expected' = [expected EXCEPT ![loc[p].res.userId] = @ - loc[p].res.lateFee]
          /\ lateCharged' = [lateCharged EXCEPT ![call[p].rid] = @ + loc[p].res.lateFee]
          /\ loc' = [loc EXCEPT ![p].charged = loc[p].res.lateFee]
          /\ Goto(p, "rBook")
       \/ /\ End(p, LateFeeError(loc[p].res.lateFee))
          /\ UNCHANGED <<walletDB, expected, lateCharged, loc>>
    /\ UNCHANGED <<now, calls, bookDB, reservationDB, pre>>

\* bookRepository.findById, then convertToPurchase + borrowCopy, or returnCopy
ReturnFindBook(p) ==
    /\ pc[p] = "rBook"
    /\ LET b == loc[p].res.bookId IN
       IF b \notin DOMAIN bookDB
       THEN Goto(p, "rUpdate") /\ UNCHANGED loc
       ELSE LET book == BookFromDoc(bookDB[b]) IN
            IF loc[p].res.lateFee >= retailPrice[b]
            THEN LET c == ConvertToPurchase(loc[p].res, retailPrice[b], now)
                     bc == BorrowCopy(book)
                 IN IF ~c.ok THEN End(p, c.err) /\ UNCHANGED loc
                    ELSE IF ~bc.ok THEN End(p, bc.err) /\ UNCHANGED loc
                    ELSE /\ Goto(p, "rBookUpdate")
                         /\ loc' = [loc EXCEPT ![p].res = c.val, ![p].book = bc.val,
                                                ![p].readCopies = bookDB[b].availableCopies]
            ELSE LET rc == ReturnCopy(book) IN
                 IF ~rc.ok THEN End(p, rc.err) /\ UNCHANGED loc
                 ELSE /\ Goto(p, "rBookUpdate")
                      /\ loc' = [loc EXCEPT ![p].book = rc.val,
                                             ![p].readCopies = bookDB[b].availableCopies]
    /\ UNCHANGED <<now, calls, db, pre>>

\* bookRepository.update(book)
ReturnUpdateBook(p) ==
    /\ pc[p] = "rBookUpdate"
    /\ \/ /\ bookDB' = [bookDB EXCEPT ![loc[p].res.bookId] = BookToDoc(loc[p].book)]
          /\ Goto(p, "rUpdate")
       \/ /\ End(p, DbError)
          /\ UNCHANGED bookDB
    /\ UNCHANGED <<now, calls, walletDB, reservationDB, expected, lateCharged, loc, pre>>

\* reservationRepository.update(reservation): the whole document is overwritten
ReturnUpdateReservation(p) ==
    /\ pc[p] = "rUpdate"
    /\ \/ /\ reservationDB' = [reservationDB EXCEPT ![call[p].rid] = loc[p].res]
          /\ Goto(p, "rEmail")
       \/ /\ End(p, DbError)
          /\ UNCHANGED reservationDB
    /\ UNCHANGED <<now, calls, walletDB, bookDB, expected, lateCharged, loc, pre>>

\* userRepository.findById and emailService.sendReturnConfirmation
ReturnEmail(p) ==
    /\ pc[p] = "rEmail"
    /\ \/ End(p, "ok")
       \/ End(p, EmailError)
    /\ UNCHANGED <<now, calls, db, loc, pre>>

\* ------------------------------------------------------------- WalletService
WalletIds == WalletOwners \cup {"ux"}

\* addFunds: walletRepository.findById, wallet.deposit(amount)
StartAddFunds(p, w, a) ==
        /\ LET c == [NoCall EXCEPT !.op = "addFunds", !.userId = w, !.amount = a] IN
           IF w \notin DOMAIN walletDB
           THEN Begin(p, [c EXCEPT !.result = "null"], "done") /\ UNCHANGED loc
           ELSE LET d == WalletDeposit(WalletFromDoc(walletDB[w]), a) IN
                IF ~d.ok
                THEN Begin(p, [c EXCEPT !.result = d.err], "done") /\ UNCHANGED loc
                ELSE /\ d.val <= MaxBalance
                     /\ Begin(p, c, "aUpdate")
                     /\ loc' = [loc EXCEPT ![p].wallet = d.val]
        /\ UNCHANGED <<now, db>>

\* addFunds: walletRepository.update(wallet)
AddFundsUpdate(p) ==
    /\ pc[p] = "aUpdate"
    /\ \/ /\ walletDB' = [walletDB EXCEPT ![call[p].userId] = loc[p].wallet]
          /\ expected' = [expected EXCEPT ![call[p].userId] = @ + call[p].amount]
          /\ End(p, "ok")
       \/ /\ End(p, DbError)
          /\ UNCHANGED <<walletDB, expected>>
    /\ UNCHANGED <<now, calls, bookDB, reservationDB, lateCharged, loc, pre>>

\* deductFunds: walletRepository.findById, hasEnoughFunds, wallet.withdraw(amount)
StartDeductFunds(p, w, a) ==
        /\ LET c == [NoCall EXCEPT !.op = "deductFunds", !.userId = w, !.amount = a] IN
           IF w \notin DOMAIN walletDB
           THEN Begin(p, [c EXCEPT !.result = "null"], "done") /\ UNCHANGED loc
           ELSE LET balance == WalletFromDoc(walletDB[w]) IN
                IF ~HasEnoughFunds(balance, a)
                THEN Begin(p, [c EXCEPT !.result = "Insufficient funds"], "done")
                     /\ UNCHANGED loc
                ELSE LET d == WalletWithdraw(balance, a) IN
                     IF ~d.ok
                     THEN Begin(p, [c EXCEPT !.result = d.err], "done") /\ UNCHANGED loc
                     ELSE /\ Begin(p, c, "dUpdate")
                          /\ loc' = [loc EXCEPT ![p].wallet = d.val]
        /\ UNCHANGED <<now, db>>

\* deductFunds: walletRepository.update(wallet)
DeductFundsUpdate(p) ==
    /\ pc[p] = "dUpdate"
    /\ \/ /\ walletDB' = [walletDB EXCEPT ![call[p].userId] = loc[p].wallet]
          /\ expected' = [expected EXCEPT ![call[p].userId] = @ - call[p].amount]
          /\ End(p, "ok")
       \/ /\ End(p, DbError)
          /\ UNCHANGED <<walletDB, expected>>
    /\ UNCHANGED <<now, calls, bookDB, reservationDB, lateCharged, loc, pre>>

\* ------------------------------- ReservationService.update (forceDueDate route)
ForceDates == {Days(0 - MaxLateDays), 0 - 1}

\* the update that also clears the late fee
StartForceDueDateClearingFee(p, r, d) ==
        /\ LET c == [NoCall EXCEPT !.op = "forceDueDate", !.rid = r, !.dueDate = d] IN
           IF r \notin DOMAIN reservationDB
           THEN Begin(p, [c EXCEPT !.result = "null"], "done") /\ UNCHANGED loc
           ELSE /\ Begin(p, c, "fUpdate")
                /\ loc' = [loc EXCEPT ![p].res =
                       [ReservationFromDoc(reservationDB[r]) EXCEPT !.dueDate = d,
                                                                    !.lateFee = 0]]
        /\ UNCHANGED <<now, db>>

\* reservationRepository.findById, new Reservation({...existing, dueDate})
StartForceDueDate(p, r, d) ==
        /\ LET c == [NoCall EXCEPT !.op = "forceDueDate", !.rid = r, !.dueDate = d] IN
           IF r \notin DOMAIN reservationDB
           THEN Begin(p, [c EXCEPT !.result = "null"], "done") /\ UNCHANGED loc
           ELSE /\ Begin(p, c, "fUpdate")
                /\ loc' = [loc EXCEPT ![p].res =
                       ReservationFromDoc(
                           [ReservationFromDoc(reservationDB[r]) EXCEPT !.dueDate = d])]
        /\ UNCHANGED <<now, db>>

\* reservationRepository.update(updated)
ForceDueDateUpdate(p) ==
    /\ pc[p] = "fUpdate"
    /\ \/ /\ reservationDB' = [reservationDB EXCEPT ![call[p].rid] = loc[p].res]
          /\ End(p, "ok")
       \/ /\ End(p, DbError)
          /\ UNCHANGED reservationDB
    /\ UNCHANGED <<now, calls, walletDB, bookDB, expected, lateCharged, loc, pre>>

\* --------------------- ReservationService.updateOverdueReservationStatuses
RECURSIVE DescendingSeq(_)
DescendingSeq(S) ==
    IF S = {} THEN << >>
    ELSE LET m == CHOOSE x \in S : \A y \in S : y <= x
         IN <<m>> \o DescendingSeq(S \ {m})

\* the reservations of ids as the repository loads them, in that order
Loaded(ids) ==
    [k \in 1..Len(ids) |-> [rid |-> ids[k], res |-> ReservationFromDoc(reservationDB[ids[k]])]]

\* findByStatus(ACTIVE, 1, 1000) filtered to the overdue ones
OverdueActive ==
    {i \in DOMAIN reservationDB :
        /\ reservationDB[i].status = "ACTIVE"
        /\ reservationDB[i].dueDate < now
        /\ ~HasDate(reservationDB[i].returnDate)}

\* findByStatus(ACTIVE, 1, 1000), newest first, filtered to the overdue ones
StartPromote(p) ==
    /\ LET c == [NoCall EXCEPT !.op = "updateOverdueReservationStatuses"]
       IN IF OverdueActive = {}
          THEN Begin(p, [c EXCEPT !.result = "ok"], "done") /\ UNCHANGED loc
          ELSE /\ Begin(p, c, "uNext")
               /\ loc' = [loc EXCEPT ![p].queue = Loaded(DescendingSeq(OverdueActive))]
    /\ UNCHANGED <<now, db>>

\* one turn of the loop: reservation.markAsLate(), reservationRepository.update;
\* an error is caught and logged, and the loop goes on. After the last turn the
\* method returns: to its caller, or to the scheduled job that called it first
PromoteNext(p) ==
    /\ pc[p] = "uNext"
    /\ LET head == Head(loc[p].queue) IN
       \/ /\ reservationDB' = [reservationDB EXCEPT ![head.rid] = MarkAsLate(head.res, now)]
          /\ loc' = [loc EXCEPT ![p].queue = Tail(@)]
       \/ /\ UNCHANGED reservationDB
          /\ loc' = [loc EXCEPT ![p].queue = Tail(@), ![p].failed = TRUE]
    /\ IF Len(loc[p].queue) > 1 THEN Goto(p, "uNext")
       ELSE IF call[p].op = "updateOverdueReservationStatuses" THEN End(p, "ok")
       ELSE Goto(p, "sQuery")
    /\ UNCHANGED <<now, calls, walletDB, bookDB, expected, lateCharged, pre>>

\* ------------ ReservationService.sendDueReminders, sendLateReminders,
\* ------------ checkForBooksToPurchase (the jobs of SchedulerService)
SweepOps == {"sendDueReminders", "sendLateReminders", "checkForBooksToPurchase"}
DueSoonDays == 2
LateReminderDays == 7

\* setHours(0, 0, 0, 0)
StartOfDay(t) == (t \div TicksPerDay) * TicksPerDay

RECURSIVE AscendingSeq(_)
AscendingSeq(S) ==
    IF S = {} THEN << >>
    ELSE LET m == CHOOSE x \in S : \A y \in S : x <= y
         IN <<m>> \o AscendingSeq(S \ {m})

\* dueDate from the start of today to the end of the day that is days ahead
FindReservationsDueSoon(days) ==
    {i \in DOMAIN reservationDB :
        /\ reservationDB[i].status \in {"ACTIVE", "LATE"}
        /\ reservationDB[i].dueDate >= StartOfDay(now)
        /\ reservationDB[i].dueDate < StartOfDay(now) + Days(days + 1)
        /\ ~reservationDB[i].reminderSent
        /\ ~HasDate(reservationDB[i].returnDate)}

\* dueDate before the end of the day that is days back
FindOverdueReservations(days) ==
    {i \in DOMAIN reservationDB :
        /\ reservationDB[i].status \in {"ACTIVE", "LATE"}
        /\ reservationDB[i].dueDate < StartOfDay(now) - Days(days) + Days(1)
        /\ ~reservationDB[i].lateReminderSent
        /\ ~HasDate(reservationDB[i].returnDate)}

FindLateReservations ==
    {i \in DOMAIN reservationDB :
        /\ \/ reservationDB[i].status = "LATE"
           \/ reservationDB[i].status = "ACTIVE" /\ reservationDB[i].dueDate < now
        /\ ~HasDate(reservationDB[i].returnDate)}

\* the job starts with updateOverdueReservationStatuses()
StartSweep(p, op) ==
    /\ LET c == [NoCall EXCEPT !.op = op, !.seq = calls, !.at = now]
       IN IF OverdueActive = {}
          THEN Begin(p, c, "sQuery") /\ UNCHANGED loc
          ELSE /\ Begin(p, c, "uNext")
               /\ loc' = [loc EXCEPT ![p].queue = Loaded(DescendingSeq(OverdueActive))]
    /\ UNCHANGED <<now, db>>

\* the same job fired by its cron schedule, which fires whatever else is running
ScheduledSweep(p, op) ==
    /\ LET c == [NoCall EXCEPT !.op = op, !.seq = calls, !.at = now]
       IN IF OverdueActive = {}
          THEN Enter(p, c, "sQuery") /\ UNCHANGED loc
          ELSE /\ Enter(p, c, "uNext")
               /\ loc' = [loc EXCEPT ![p].queue = Loaded(DescendingSeq(OverdueActive))]
    /\ UNCHANGED <<now, calls, db>>

\* findReservationsDueSoon(2), findOverdueReservations(7) or findLateReservations()
SweepQuery(p) ==
    /\ pc[p] = "sQuery"
    /\ LET found == CASE call[p].op = "sendDueReminders" ->
                             FindReservationsDueSoon(DueSoonDays)
                      [] call[p].op = "sendLateReminders" ->
                             FindOverdueReservations(LateReminderDays)
                      [] OTHER -> FindLateReservations
       IN /\ loc' = [loc EXCEPT ![p].queue = Loaded(AscendingSeq(found))]
          /\ IF found = {} THEN End(p, "ok") ELSE Goto(p, "sNext")
    /\ UNCHANGED <<now, calls, db, pre>>

LookupError == "Database read failed"

\* a turn of the loop that charges the wallet of the user
SweepNextCharging(p) ==
    /\ pc[p] = "sNext"
    /\ walletDB' = [walletDB EXCEPT ![Head(loc[p].queue).res.userId] = 0]
    /\ loc' = [loc EXCEPT ![p].queue = Tail(@)]
    /\ IF Len(loc[p].queue) > 1 THEN Goto(p, "sNext") ELSE End(p, "ok")
    /\ UNCHANGED <<now, calls, bookDB, reservationDB, expected, lateCharged, pre>>

\* one turn of the loop of a job, on the reservation it loaded: the user and book
\* lookups, then email and update (the reminders) or convertToPurchase, update and
\* email (the purchase check). An error of the lookups, which are made before the
\* try block, ends the job; any other error is caught and logged, and the loop
\* goes on
SweepNext(p) ==
    /\ pc[p] = "sNext"
    /\ LET head == Head(loc[p].queue)
           res == head.res
           price == retailPrice[res.bookId]
           purchase == call[p].op = "checkForBooksToPurchase"
           conv == ConvertToPurchase(res, price, now)
           looksUp == CASE call[p].op = "sendDueReminders" -> ~res.reminderSent
                        [] call[p].op = "sendLateReminders" -> ~res.lateReminderSent
                        [] OTHER -> res.status # "CONVERTED_TO_PURCHASE"
           acts == looksUp /\ (purchase => CalculateCurrentLateFee(res, now) >= price)
           changed == CASE call[p].op = "sendDueReminders" -> MarkReminderSent(res)
                        [] call[p].op = "sendLateReminders" ->
                               MarkAsLate(MarkLateReminderSent(res), now)
                        [] OTHER -> conv.val
           turn(sent, failed) ==
               /\ loc' = [loc EXCEPT ![p].queue = Tail(@),
                                     ![p].sent = @ + sent,
                                     ![p].sentTo = IF sent > 0 THEN @ \cup {head.rid} ELSE @,
                                     ![p].failed = @ \/ failed]
               /\ IF Len(loc[p].queue) > 1 THEN Goto(p, "sNext") ELSE End(p, "ok")
       IN \/ /\ looksUp
             /\ loc' = [loc EXCEPT ![p].failed = TRUE]
             /\ End(p, LookupError)
             /\ UNCHANGED reservationDB
          \/ /\ ~acts
             /\ turn(0, FALSE)
             /\ UNCHANGED reservationDB
          \/ /\ acts /\ purchase /\ ~conv.ok
             /\ turn(0, TRUE)
             /\ UNCHANGED reservationDB
          \/ /\ acts /\ (purchase => conv.ok)
             /\ \/ /\ reservationDB' = [reservationDB EXCEPT ![head.rid] = changed]
                   /\ turn(1, FALSE)
                \* the email fails: before the update of a reminder, after the
                \* update of a conversion
                \/ /\ reservationDB' = IF purchase
                                       THEN [reservationDB EXCEPT ![head.rid] = changed]
                                       ELSE reservationDB
                   /\ turn(0, TRUE)
                \* the update fails: after the email of a reminder, before the
                \* email of a conversion
                \/ /\ UNCHANGED reservationDB
                   /\ turn(IF purchase THEN 0 ELSE 1, TRUE)
    /\ UNCHANGED <<now, calls, walletDB, bookDB, expected, lateCharged, pre>>

\* ------------------------------------------------------------ specification
\* the steps of a request that has started
Continue(p) ==
    \/ CreateFindBook(p) \/ CreateFindActive(p)
    \/ CreateFindWallet(p) \/ CreateUpdateWallet(p) \/ CreateUpdateBook(p)
    \/ CreateSave(p) \/ CreateEmail(p)
    \/ ReturnFindWallet(p) \/ ReturnUpdateWallet(p)
    \/ ReturnFindBook(p) \/ ReturnUpdateBook(p) \/ ReturnUpdateReservation(p)
    \/ ReturnEmail(p)
    \/ AddFundsUpdate(p)
    \/ DeductFundsUpdate(p)
    \/ ForceDueDateUpdate(p)
    \/ Return(p)

\* one request at a time, each run to its end before the next starts; any input
Next ==
    \/ Tick
    \/ \E u \in UserIds, b \in BookIds : RoomFor(MaxRes) /\ StartCreate("p1", u, b)
    \/ \E r \in ResIds : StartReturn("p1", r)
    \/ \E w \in WalletIds, a \in DepositAmounts : StartAddFunds("p1", w, a)
    \/ \E w \in WalletIds, a \in DeductAmounts : StartDeductFunds("p1", w, a)
    \/ \E r \in ResIds, d \in ForceDates : StartForceDueDate("p1", r, d)
    \/ StartPromote("p1")
    \/ PromoteNext("p1")
    \/ Continue("p1")

Spec == Init /\ [][Next]_vars

\* two requests of eligible users interleave at their persistence reads and writes
ConcInit ==
    /\ now = 0
    /\ walletDB = InitBalance
    /\ bookDB = InitBooks
    /\ reservationDB = << >>
    /\ pc = [p \in Procs |-> "idle"]
    /\ call = [p \in Procs |-> NoCall]
    /\ loc = [p \in Procs |-> NoLoc]
    /\ pre = [p \in Procs |-> NoPre]
    /\ expected = InitBalance
    /\ lateCharged = [r \in 1..MaxRes |-> 0]
    /\ calls = MaxConcCalls

ConcNext ==
    \E p \in Procs :
        \/ \E u \in WalletOwners, b \in Books : RoomFor(MaxRes) /\ StartCreate(p, u, b)
        \/ \E r \in DOMAIN reservationDB : StartReturn(p, r)
        \/ \E w \in WalletOwners, a \in DepositAmounts : StartAddFunds(p, w, a)
        \/ \E w \in WalletOwners, a \in DeductAmounts : StartDeductFunds(p, w, a)
        \/ \E r \in DOMAIN reservationDB, d \in ForceDates : StartForceDueDate(p, r, d)
        \/ Continue(p)

ConcSpec == ConcInit /\ [][ConcNext]_vars

\* createReservation alone, two requests interleaved, any input, from the state in
\* which u1 already holds the two books of HeldBooks
HeldReservation(u, b) ==
    [CreateNew(u, b, 0) EXCEPT !.status = "ACTIVE"]

LimitInit ==
    /\ now = 0
    /\ walletDB = InitBalance
    /\ bookDB = [b \in Books \cup HeldBooks |->
                    IF b \in Books THEN InitBooks[b]
                    ELSE [totalCopies |-> 2, availableCopies |-> 1]]
    /\ reservationDB = <<HeldReservation("u1", "b3"), HeldReservation("u1", "b4")>>
    /\ pc = [p \in Procs |-> "idle"]
    /\ call = [p \in Procs |-> NoCall]
    /\ loc = [p \in Procs |-> NoLoc]
    /\ pre = [p \in Procs |-> NoPre]
    /\ expected = InitBalance
    /\ lateCharged = [r \in 1..MaxRes |-> 0]
    /\ calls = MaxLimitCalls

LimitNext ==
    \E p \in Procs :
        \/ \E u \in UserIds, b \in BookIds :
              RoomFor(Cardinality(HeldBooks) + MaxRes) /\ StartCreate(p, u, b)
        \/ CreateFindBook(p) \/ CreateFindActive(p)
        \/ CreateFindWallet(p) \/ CreateUpdateWallet(p) \/ CreateUpdateBook(p)
        \/ CreateSave(p) \/ CreateEmail(p)
        \/ Return(p)

LimitSpec == LimitInit /\ [][LimitNext]_vars

\* the scheduled jobs, returnBook and forceDueDate, two requests interleaved, on one
\* reservation of u1 that is due tomorrow or overdue
SweepDueDates == {Days(0 - LateReminderDays), Days(0 - MaxLateDays), Days(1)}
SweepForceDates == {0 - 1, Days(1)}

SweepInit ==
    /\ now = 0
    /\ walletDB = InitBalance
    /\ bookDB = [InitBooks EXCEPT !["b2"].availableCopies = @ - 1]
    /\ \E d \in SweepDueDates :
          reservationDB = <<[HeldReservation("u1", "b2") EXCEPT
                                !.borrowDate = d - Days(STANDARD_BORROW_DAYS),
                                !.dueDate = d]>>
    /\ pc = [p \in Procs |-> "idle"]
    /\ call = [p \in Procs |-> NoCall]
    /\ loc = [p \in Procs |-> NoLoc]
    /\ pre = [p \in Procs |-> NoPre]
    /\ expected = InitBalance
    /\ lateCharged = [r \in 1..MaxRes |-> 0]
    /\ calls = MaxSweepCalls

SweepSpecNext ==
    \/ Tick
    \/ \E p \in Procs :
          \/ \E op \in SweepOps : StartSweep(p, op)
          \/ PromoteNext(p) \/ SweepQuery(p) \/ SweepNext(p)
          \/ \E r \in DOMAIN reservationDB : StartReturn(p, r)
          \/ ReturnFindWallet(p) \/ ReturnUpdateWallet(p)
          \/ ReturnFindBook(p) \/ ReturnUpdateBook(p) \/ ReturnUpdateReservation(p)
          \/ ReturnEmail(p)
          \/ \E r \in DOMAIN reservationDB, d \in SweepForceDates :
                StartForceDueDate(p, r, d)
          \/ ForceDueDateUpdate(p)
          \/ Return(p)

SweepSpec == SweepInit /\ [][SweepSpecNext]_vars

\* the scheduled jobs alone, run one after the other or interleaved at one time
\* of the day, on two reservations (u1 on b2, u2 on b1), each due tomorrow or
\* overdue
JobDueDates == SweepDueDates \X SweepDueDates

SeededReservation(u, b, d) ==
    [HeldReservation(u, b) EXCEPT !.borrowDate = d - Days(STANDARD_BORROW_DAYS),
                                  !.dueDate = d]

JobInit ==
    /\ now \in 0..MaxTime
    /\ walletDB = InitBalance
    /\ bookDB = [b \in Books |-> [InitBooks[b] EXCEPT !.availableCopies = @ - 1]]
    /\ \E d \in JobDueDates :
          reservationDB = <<SeededReservation("u1", "b2", d[1]),
                            SeededReservation("u2", "b1", d[2])>>
    /\ pc = [p \in Procs |-> "idle"]
    /\ call = [p \in Procs |-> NoCall]
    /\ loc = [p \in Procs |-> NoLoc]
    /\ pre = [p \in Procs |-> NoPre]
    /\ expected = InitBalance
    /\ lateCharged = [r \in 1..MaxRes |-> 0]
    /\ calls = MaxJobRuns

\* of two idle workers the first takes the job (they are interchangeable)
JobNext ==
    \E p \in Procs :
        \/ \E op \in SweepOps :
              (p = "p1" \/ pc["p1"] # "idle") /\ StartSweep(p, op)
        \/ PromoteNext(p) \/ SweepQuery(p) \/ SweepNext(p)
        \/ Return(p)

JobSpec == JobInit /\ [][JobNext]_vars

\* the two late-fee computations applied to one reservation, for every dueDate from
\* MaxFeeDays days before to one day after the reference time
FeeDueDates == (0 - Days(MaxFeeDays))..(MaxTime + Days(1))

FeeResult(op, fee) ==
    [NoCall EXCEPT !.op = op, !.rid = 1, !.amount = fee.cents,
                   !.result = IF fee.exact THEN "exact" ELSE "inexact"]

\* reservation.markAsReturned(); reservation.lateFee
ProbeReturnFee(p) ==
    /\ LET m == MarkAsReturned(ReservationFromDoc(reservationDB[1]), now)
           fee == ReturnFee(ReservationFromDoc(reservationDB[1]), now)
       IN Begin(p, FeeResult("markAsReturned", [fee EXCEPT !.cents = m.val.lateFee]),
                "done")
    /\ UNCHANGED <<now, db, loc>>

\* reservation.calculateCurrentLateFee()
ProbeCurrentFee(p) ==
    /\ Begin(p, FeeResult("calculateCurrentLateFee",
                          CurrentLateFee(ReservationFromDoc(reservationDB[1]), now)),
             "done")
    /\ UNCHANGED <<now, db, loc>>

FeeInit ==
    /\ now \in 0..MaxTime
    /\ walletDB = InitBalance
    /\ bookDB = [InitBooks EXCEPT !["b2"].availableCopies = @ - 1]
    /\ \E d \in FeeDueDates :
          reservationDB = <<[HeldReservation("u1", "b2") EXCEPT !.dueDate = d]>>
    /\ pc = [p \in Procs |-> "idle"]
    /\ call = [p \in Procs |-> NoCall]
    /\ loc = [p \in Procs |-> NoLoc]
    /\ pre = [p \in Procs |-> NoPre]
    /\ expected = InitBalance
    /\ lateCharged = [r \in 1..MaxRes |-> 0]
    /\ calls = 1

FeeNext ==
    \/ ProbeReturnFee("p1")
    \/ ProbeCurrentFee("p1")
    \/ Return("p1")

FeeSpec == FeeInit /\ [][FeeNext]_vars

\* createReservation, returnBook and the scheduled jobs, two requests interleaved,
\* from the state of SweepInit: the operations that read or write the copies of an
\* item, and the jobs that run beside them
CopyInit ==
    /\ now = 0
    /\ walletDB = InitBalance
    /\ bookDB = [InitBooks EXCEPT !["b2"].availableCopies = @ - 1]
    /\ \E d \in SweepDueDates : reservationDB = <<SeededReservation("u1", "b2", d)>>
    /\ pc = [p \in Procs |-> "idle"]
    /\ call = [p \in Procs |-> NoCall]
    /\ loc = [p \in Procs |-> NoLoc]
    /\ pre = [p \in Procs |-> NoPre]
    /\ expected = InitBalance
    /\ lateCharged = [r \in 1..MaxRes |-> 0]
    /\ calls = MaxCopyCalls

CopyNext ==
    \E p \in Procs :
        \/ \E u \in WalletOwners, b \in Books : RoomFor(MaxRes) /\ StartCreate(p, u, b)
        \/ CreateFindBook(p) \/ CreateFindActive(p)
        \/ CreateFindWallet(p) \/ CreateUpdateWallet(p) \/ CreateUpdateBook(p)
        \/ CreateSave(p) \/ CreateEmail(p)
        \/ \E r \in DOMAIN reservationDB : StartReturn(p, r)
        \/ ReturnFindWallet(p) \/ ReturnUpdateWallet(p)
        \/ ReturnFindBook(p) \/ ReturnUpdateBook(p) \/ ReturnUpdateReservation(p)
        \/ ReturnEmail(p)
        \/ \E op \in SweepOps : StartSweep(p, op)
        \/ PromoteNext(p) \/ SweepQuery(p) \/ SweepNext(p)
        \/ Return(p)

CopySpec == CopyInit /\ [][CopyNext]_vars

\* wallet.deposit and wallet.withdraw applied to one wallet object, for balances
\* and amounts at and around zero, the fees and MaxBalance
WalletBalances == {0, 1, LATE_FEE_PER_DAY, RESERVATION_FEE, MaxBalance}
ProbeAmounts ==
    {0 - RESERVATION_FEE} \cup {b + k : b \in WalletBalances, k \in {0 - 1, 0, 1}}

\* the call of a method of the wallet loaded from the document of u1: its outcome
\* and the balance the object has afterwards
WalletResult(p, op, amount, r) ==
    /\ Begin(p, [NoCall EXCEPT !.op = op, !.userId = "u1", !.amount = amount,
                               !.result = IF r.ok THEN "ok" ELSE r.err], "done")
    /\ loc' = [loc EXCEPT ![p].wallet = r.val]
    /\ UNCHANGED <<now, db>>

ProbeDeposit(p, amount) ==
    WalletResult(p, "deposit", amount, WalletDeposit(WalletFromDoc(walletDB["u1"]), amount))

ProbeWithdraw(p, amount) ==
    WalletResult(p, "withdraw", amount, WalletWithdraw(WalletFromDoc(walletDB["u1"]), amount))

WalletInit ==
    /\ now = 0
    /\ \E b \in WalletBalances : walletDB = [InitBalance EXCEPT !["u1"] = b]
    /\ bookDB = InitBooks
    /\ reservationDB = << >>
    /\ pc = [p \in Procs |-> "idle"]
    /\ call = [p \in Procs |-> NoCall]
    /\ loc = [p \in Procs |-> NoLoc]
    /\ pre = [p \in Procs |-> NoPre]
    /\ expected = walletDB
    /\ lateCharged = [r \in 1..MaxRes |-> 0]
    /\ calls = 1

WalletNext ==
    \/ \E a \in ProbeAmounts : ProbeDeposit("p1", a)
    \/ \E a \in ProbeAmounts : ProbeWithdraw("p1", a)
    \/ Return("p1")

WalletSpec == WalletInit /\ [][WalletNext]_vars

\* ------------------------------------------------------------------ claims
Done(p, op) == pc[p] = "done" /\ call[p].op = op

\* the persisted wallets, books and reservations are as when p's request started
DbUnchanged(p) == Snapshot = pre[p]

\* the reservation p's returnBook found, and the late fee it computed at return time
PreReservation(p) == ReservationFromDoc(pre[p].reservationDB[call[p].rid])
FeeAtReturn(p) ==
    MarkAsReturned(PreReservation(p), loc[p].res.returnDate[1]).val.lateFee
Returning(p) ==
    /\ Done(p, "returnBook")
    /\ call[p].rid \in DOMAIN pre[p].reservationDB
    /\ PreReservation(p).status \in {"ACTIVE", "LATE"}

\* C1: createReservation is all-or-nothing: when one of its persistence writes
\* (wallet update, book update, reservation save) fails, the persisted wallets,
\* books and reservations are exactly as before the call.
C1_CreateAllOrNothing ==
    (Done("p1", "createReservation") /\ call["p1"].result = DbError)
        => DbUnchanged("p1")

\* C2: two interleaved createReservation calls of two different users for an item
\* of which both read exactly one available copy never both succeed.
C2_AtMostOneBorrowOfLastCopy ==
    ~ \E p, q \in Procs :
        /\ p # q
        /\ Done(p, "createReservation") /\ Done(q, "createReservation")
        /\ call[p].result = "ok" /\ call[q].result = "ok"
        /\ call[p].bookId = call[q].bookId
        /\ call[p].userId # call[q].userId
        /\ loc[p].readCopies = 1 /\ loc[q].readCopies = 1

\* the caller of p's createReservation passed every guard but availability when the
\* call started: active, with a funded wallet, under the limit, not holding the item
Eligible(p) ==
    LET u == call[p].userId
        held == {i \in DOMAIN pre[p].reservationDB :
                    /\ pre[p].reservationDB[i].userId = u
                    /\ pre[p].reservationDB[i].status \in ActiveStatuses}
    IN /\ u \in WalletOwners /\ userIsActive[u]
       /\ call[p].bookId \in Books
       /\ pre[p].walletDB[u] >= RESERVATION_FEE
       /\ Cardinality(held) < MaxBooksPerUser
       /\ \A i \in held : pre[p].reservationDB[i].bookId # call[p].bookId

\* C3: createReservation by an otherwise eligible user for an item whose persisted
\* availableCopies is 0 fails with the item-unavailable error and changes no wallet,
\* item or reservation.
C3_UnavailableItemRejected ==
    ( /\ Done("p1", "createReservation")
      /\ Eligible("p1")
      /\ pre["p1"].bookDB[call["p1"].bookId].availableCopies = 0 )
        => /\ call["p1"].result = "Book is not available for reservation"
           /\ DbUnchanged("p1")

\* C4: a successful createReservation leaves the item's persisted availableCopies
\* exactly 1 lower than before the call, a successful ordinary returnBook exactly 1
\* higher, and a returnBook that converts to a purchase never increments it.
C4_BorrowDecrements ==
    (Done("p1", "createReservation") /\ call["p1"].result = "ok")
        => bookDB[call["p1"].bookId].availableCopies
             = pre["p1"].bookDB[call["p1"].bookId].availableCopies - 1
C4_ReturnIncrements ==
    ( /\ Returning("p1") /\ call["p1"].result = "ok"
      /\ reservationDB[call["p1"].rid].status = "RETURNED" )
        => bookDB[loc["p1"].res.bookId].availableCopies
             = pre["p1"].bookDB[loc["p1"].res.bookId].availableCopies + 1
C4_ConversionKeepsCopy ==
    ( /\ Returning("p1")
      /\ reservationDB[call["p1"].rid].status = "CONVERTED_TO_PURCHASE" )
        => bookDB[loc["p1"].res.bookId].availableCopies
             <= pre["p1"].bookDB[loc["p1"].res.bookId].availableCopies
C4_AvailabilityDeltas ==
    C4_BorrowDecrements /\ C4_ReturnIncrements /\ C4_ConversionKeepsCopy

\* C5: returnBook is all-or-nothing: when it ends in an error (late-fee withdrawal
\* rejected, conversion fails, availability restore fails, a persistence write
\* fails), the persisted wallets, books and reservations are as before the call.
C5_ReturnAllOrNothing ==
    ( /\ Done("p1", "returnBook")
      /\ call["p1"].result \notin {"ok", "null", EmailError} )
        => DbUnchanged("p1")

\* C6: returnBook on an ACTIVE or LATE reservation whose late fee at return time is at
\* least the retail price, by a user who can pay it, succeeds (no write or mail fault
\* aside) and persists CONVERTED_TO_PURCHASE, lateFee = retail price, a returnDate,
\* and the availability it found.
C6_ReturnConvertsToPurchase ==
    ( /\ Returning("p1")
      /\ FeeAtReturn("p1") >= retailPrice[PreReservation("p1").bookId]
      /\ pre["p1"].walletDB[PreReservation("p1").userId] >= FeeAtReturn("p1")
      /\ call["p1"].result \notin {DbError, EmailError, LateFeeError(FeeAtReturn("p1"))} )
        => /\ call["p1"].result = "ok"
           /\ reservationDB[call["p1"].rid].status = "CONVERTED_TO_PURCHASE"
           /\ reservationDB[call["p1"].rid].lateFee
                = retailPrice[PreReservation("p1").bookId]
           /\ HasDate(reservationDB[call["p1"].rid].returnDate)
           /\ bookDB[PreReservation("p1").bookId].availableCopies
                = pre["p1"].bookDB[PreReservation("p1").bookId].availableCopies

\* C7: the late fee one returnBook withdraws, and the total withdrawn for one
\* reservation over all returnBook calls, never exceeds the item's retail price.
C7_LateFeeCappedAtRetailPrice ==
    /\ \A p \in Procs :
          pc[p] # "idle" /\ call[p].op = "returnBook" /\ loc[p].charged > 0
              => loc[p].charged <= retailPrice[loc[p].res.bookId]
    /\ \A r \in DOMAIN reservationDB :
          lateCharged[r] <= retailPrice[reservationDB[r].bookId]

\* C8: when the late fee returnBook computes is positive and the wallet holds less,
\* returnBook fails with the insufficient-funds error; the reservation keeps its
\* status and has no returnDate, and no wallet, book or reservation has changed.
C8_LateFeeInsufficientFunds ==
    ( /\ Returning("p1")
      /\ FeeAtReturn("p1") > 0
      /\ pre["p1"].walletDB[PreReservation("p1").userId] < FeeAtReturn("p1") )
        => /\ call["p1"].result = LateFeeError(FeeAtReturn("p1"))
           /\ reservationDB[call["p1"].rid].status = PreReservation("p1").status
           /\ ~HasDate(reservationDB[call["p1"].rid].returnDate)
           /\ DbUnchanged("p1")

\* a late return was refused for lack of funds
C8_Witness ==
    /\ Returning("p1")
    /\ FeeAtReturn("p1") > 0
    /\ pre["p1"].walletDB[PreReservation("p1").userId] < FeeAtReturn("p1")
    /\ call["p1"].result = LateFeeError(FeeAtReturn("p1"))

\* C9: after any sequence of deposits, withdrawals, createReservation and returnBook
\* calls, rejected ones included, every persisted wallet balance is >= 0.
C9_BalanceNeverNegative == \A u \in DOMAIN walletDB : walletDB[u] >= 0

\* a withdrawal or a late-fee charge was refused on an emptied wallet
C9_Witness ==
    /\ \E u \in DOMAIN walletDB : walletDB[u] = 0 /\ InitBalance[u] > 0
    /\ \/ Done("p1", "deductFunds") /\ call["p1"].result = "Insufficient funds"
       \/ /\ Done("p1", "returnBook")
          /\ call["p1"].result = LateFeeError(loc["p1"].res.lateFee)
          /\ walletDB[loc["p1"].res.userId] = 0

\* the wallet p's request charges or credits
WalletOf(p) ==
    IF call[p].op = "returnBook" THEN loc[p].res.userId ELSE call[p].userId

\* C10: when two interleaved requests on the same wallet (two createReservation calls
\* for different items, or a createReservation or returnBook racing with addFunds or
\* deductFunds) have both reported success, the persisted balance is the initial
\* balance plus the deposits minus the charges made so far: no update is lost.
C10_NoLostWalletUpdate ==
    \A p, q \in Procs :
        ( /\ p # q
          /\ pc[p] = "done" /\ call[p].result = "ok"
          /\ pc[q] = "done" /\ call[q].result = "ok"
          /\ call[p].op \in {"createReservation", "returnBook"}
          /\ \/ call[q].op \in {"addFunds", "deductFunds"}
             \/ call[q].op = "createReservation" /\ call[p].op = "createReservation"
                /\ call[p].bookId # call[q].bookId
          /\ WalletOf(p) = WalletOf(q) )
            => walletDB[WalletOf(p)] = expected[WalletOf(p)]

\* C11: no user ever has more than 3 reservations with status PENDING, ACTIVE or
\* LATE, interleaved createReservation calls of the same user included.
C11_AtMostThreeActive ==
    \A u \in Users : Cardinality(FindActiveReservationsByUserId(u)) <= MaxBooksPerUser

\* the errors of the guards of createReservation, raised before its first write
GuardErrors ==
    {"User not found", "User account is not active", "Book not found",
     "Book is not available for reservation", "User already has this book",
     "User has reached the maximum number of books allowed (3)",
     "Wallet not found", "Insufficient funds"}
GuardPcs == {"idle", "cBook", "cActive", "cWallet"}

\* C12: a createReservation that fails at a guard (user missing or inactive, item
\* missing or unavailable, item already held, limit of 3 reached, wallet missing,
\* balance below the fee) has written nothing: it ends in its guard phase, and no
\* step of that phase changes a wallet, a book or the set of reservations.
C12_GuardFailureChangesNothing ==
    [][\A p \in Procs :
         /\ ( /\ call'[p].op = "createReservation"
              /\ pc[p] \in GuardPcs /\ pc'[p] # pc[p] )
                => UNCHANGED <<walletDB, bookDB, reservationDB>>
         /\ ( /\ call'[p].op = "createReservation"
              /\ pc[p] # "done" /\ pc'[p] = "done"
              /\ call'[p].result \in GuardErrors )
                => pc[p] \in GuardPcs]_vars

\* a user holding 3 active reservations was refused a fourth
C12_Witness ==
    \E p \in Procs :
        /\ Done(p, "createReservation")
        /\ call[p].result = "User has reached the maximum number of books allowed (3)"
        /\ Cardinality(FindActiveReservationsByUserId(call[p].userId)) = MaxBooksPerUser

\* C13: returnBook on a reservation that is RETURNED or CONVERTED_TO_PURCHASE fails
\* with an error the caller can tell apart from the not-found outcome (null), and
\* changes no wallet, book or reservation.
C13_FinalizedReturnIsAnError ==
    ( /\ Done("p1", "returnBook")
      /\ call["p1"].rid \in DOMAIN pre["p1"].reservationDB
      /\ PreReservation("p1").status \in FinalStatuses )
        => /\ call["p1"].result \notin {"ok", "null"}
           /\ DbUnchanged("p1")

DaysLateAtReturn(p) ==
    LET e == loc[p].res.returnDate[1] - PreReservation(p).dueDate
    IN IF e <= 0 THEN 0
       ELSE CHOOSE d \in 1..e : d * TicksPerDay >= e /\ (d - 1) * TicksPerDay < e

LateFeeFunction(dueDate, t) ==
    LET e == t - dueDate
    IN IF e <= 0 THEN 0
       ELSE LATE_FEE_PER_DAY
              * (CHOOSE d \in 1..e : d * TicksPerDay >= e /\ (d - 1) * TicksPerDay < e)

\* C17: for every dueDate and reference time the late fee is 0 when the reference
\* time is not after the dueDate and else ceil(elapsed days) x rate rounded to 2
\* decimals; the fee computed at return time and the fee computed by the sweeps are
\* both that 2-decimal value.
C17_LateFeeIsTheRoundedFunction ==
    ( /\ pc["p1"] = "done"
      /\ call["p1"].op \in {"markAsReturned", "calculateCurrentLateFee"} )
        => /\ call["p1"].amount = LateFeeFunction(reservationDB[1].dueDate, now)
           /\ call["p1"].result = "exact"

\* C18: every persisted reservation has a returnDate exactly when its status is
\* RETURNED or CONVERTED_TO_PURCHASE, after returnBook, forceDueDate and each of the
\* scheduled jobs, the purchase check included
C18_ReturnDateIffFinal ==
    \A i \in DOMAIN reservationDB :
        HasDate(reservationDB[i].returnDate) <=> reservationDB[i].status \in FinalStatuses

\* C15: a returnBook that loads an ACTIVE or LATE reservation at a time not later
\* than its current dueDate, whatever promotions and forceDueDate calls came
\* before, marks it RETURNED with lateFee 0 and withdraws nothing from the wallet
C15_OnTimeReturnIsFree ==
    \A p \in Procs :
        ( /\ call[p].op = "returnBook"
          /\ HasDate(loc[p].res.returnDate)
          /\ loc[p].res.returnDate[1] <= loc[p].res.dueDate )
        => /\ loc[p].res.status = "RETURNED"
           /\ loc[p].res.lateFee = 0
           /\ loc[p].charged = 0
           /\ pc[p] \notin {"rWallet", "rWalletUpdate"}

StatusEdges ==
    {<<"ACTIVE", "LATE">>, <<"ACTIVE", "RETURNED">>, <<"LATE", "RETURNED">>,
     <<"ACTIVE", "CONVERTED_TO_PURCHASE">>, <<"LATE", "CONVERTED_TO_PURCHASE">>}

\* C19: every persisted change of a reservation's status is one of ACTIVE -> LATE,
\* ACTIVE or LATE -> RETURNED, ACTIVE or LATE -> CONVERTED_TO_PURCHASE (so RETURNED
\* and CONVERTED_TO_PURCHASE are never left and LATE never goes back to ACTIVE),
\* however returnBook, forceDueDate and the scheduled jobs interleave
C19_StatusChangesFollowEdges ==
    [][\A i \in DOMAIN reservationDB :
          reservationDB'[i].status # reservationDB[i].status
          => <<reservationDB[i].status, reservationDB'[i].status>> \in StatusEdges]_vars

\* q has run the scheduled job that p ran, right after p finished it, with no
\* request started in between and no time passed since p started
RanTwiceInARow(p, q) ==
    /\ p # q
    /\ pc[p] = "done" /\ pc[q] = "done"
    /\ call[p].op \in SweepOps /\ call[q].op = call[p].op
    /\ call[q].seq = call[p].seq - 1
    /\ call[p].at = now
    /\ pre[p] # NoPre /\ pre[q] # NoPre

SecondRunDoesNothing(q) ==
    /\ loc[q].sent = 0
    /\ Snapshot = pre[q]

C21_NotifiedAtMostOnce ==
    \A p, q \in Procs :
        (p # q /\ call[p].op \in SweepOps /\ call[q].op = call[p].op)
        => loc[p].sentTo \cap loc[q].sentTo = {}

\* C22: a scheduled job that has ended has taken its turn on every reservation it
\* selected, whatever failed on the way (lookup, email, transition or update)
C22_EverySelectedReservationProcessed ==
    \A p \in Procs :
        (pc[p] = "done" /\ call[p].op \in SweepOps) => loc[p].queue = << >>

\* C23: a createReservation or returnBook that has persisted its changes reports
\* success: the failure of the confirmation email is never what its caller gets
C23_EmailFailureNotPropagated ==
    \A p \in Procs :
        (pc[p] = "done" /\ call[p].op \in {"createReservation", "returnBook"})
        => call[p].result # EmailError

C25_SweepConversionCharged ==
    \A p \in Procs : \A i \in DOMAIN reservationDB :
        ( /\ Done(p, "checkForBooksToPurchase")
          /\ i \in loc[p].sentTo
          /\ reservationDB[i].status = "CONVERTED_TO_PURCHASE" )
        => lateCharged[i] = retailPrice[reservationDB[i].bookId]

\* C26: forceDueDate on an existing reservation changes its dueDate and nothing
\* else (status, fee, lateFee, returnDate, the reminder flags, the wallets and the
\* items are as before); on an absent reservation, or when its update fails, it
\* changes nothing, and the absent one gets the not-found outcome
C26_ForceDueDateChangesDueDateOnly ==
    Done("p1", "forceDueDate") =>
        LET r == call["p1"].rid IN
        /\ call["p1"].result = "null" <=> r \notin DOMAIN pre["p1"].reservationDB
        /\ IF call["p1"].result = "ok"
           THEN /\ walletDB = pre["p1"].walletDB
                /\ bookDB = pre["p1"].bookDB
                /\ reservationDB =
                      [pre["p1"].reservationDB EXCEPT ![r].dueDate = call["p1"].dueDate]
           ELSE Snapshot = pre["p1"]

\* the dueDate of a LATE reservation with a late fee has been changed
C26_Witness ==
    /\ Done("p1", "forceDueDate")
    /\ call["p1"].result = "ok"
    /\ PreReservation("p1").status = "LATE"
    /\ PreReservation("p1").lateFee > 0
    /\ PreReservation("p1").dueDate # call["p1"].dueDate
    /\ reservationDB[call["p1"].rid].dueDate = call["p1"].dueDate

\* C27: deposit and withdraw of an amount <= 0 fail with the invalid-amount error,
\* withdraw of more than the balance fails with insufficient funds, every failing
\* call leaves the balance as it was, and a withdraw of exactly the balance
\* leaves 0
C27_WalletRejectsWithoutClamping ==
    LET balance == walletDB["u1"]
        amount == call["p1"].amount
        after == loc["p1"].wallet
        result == call["p1"].result
    IN /\ Done("p1", "deposit") =>
             IF amount <= 0
             THEN result = "Deposit amount must be positive" /\ after = balance
             ELSE result = "ok" /\ after = balance + amount
       /\ Done("p1", "withdraw") =>
             IF amount <= 0
             THEN result = "Withdrawal amount must be positive" /\ after = balance
             ELSE IF amount > balance
             THEN result = "Insufficient funds" /\ after = balance
             ELSE result = "ok" /\ after = balance - amount
       /\ (Done("p1", "withdraw") /\ amount = balance /\ amount > 0) => after = 0

\* a withdraw of more than a positive balance has been rejected
C27_Witness ==
    /\ Done("p1", "withdraw")
    /\ walletDB["u1"] > 0
    /\ call["p1"].amount > walletDB["u1"]
    /\ call["p1"].result = "Insufficient funds"
    /\ loc["p1"].wallet = walletDB["u1"]

\* C28: in every reachable state, however createReservation, returnBook and the
\* scheduled jobs interleave, the persisted availableCopies of every item is at
\* least 0 and at most its totalCopies
C28_AvailableCopiesInRange ==
    \A b \in DOMAIN bookDB :
        /\ 0 <= bookDB[b].availableCopies
        /\ bookDB[b].availableCopies <= bookDB[b].totalCopies

\* beside a scheduled job, a return has brought every copy of b2 back
C28_Witness ==
    \E p, q \in Procs :
        /\ Done(p, "returnBook") /\ call[p].result = "ok"
        /\ call[q].op \in SweepOps
        /\ bookDB["b2"].availableCopies = bookDB["b2"].totalCopies

\* ------------------------------------------------------------------ the scheduler
\* the requests that run beside the scheduled jobs
MaxLiveCalls == 1

\* one held reservation; p1 is the scheduler, p2 serves the requests
LiveInit ==
    /\ now = 0
    /\ walletDB = InitBalance
    /\ bookDB = [InitBooks EXCEPT !["b2"].availableCopies = @ - 1]
    /\ \E d \in SweepDueDates : reservationDB = <<SeededReservation("u1", "b2", d)>>
    /\ pc = [p \in Procs |-> "idle"]
    /\ call = [p \in Procs |-> NoCall]
    /\ loc = [p \in Procs |-> NoLoc]
    /\ pre = [p \in Procs |-> NoPre]
    /\ expected = InitBalance
    /\ lateCharged = [r \in 1..MaxRes |-> 0]
    /\ calls = MaxLiveCalls

\* the steps of the job the scheduler is running
JobStep(p) == PromoteNext(p) \/ SweepQuery(p) \/ SweepNext(p) \/ Return(p)

LiveNext ==
    \/ Tick
    \/ \E op \in SweepOps : ScheduledSweep("p1", op)
    \/ JobStep("p1")
    \/ \E r \in DOMAIN reservationDB : StartReturn("p2", r)
    \/ ReturnFindWallet("p2") \/ ReturnUpdateWallet("p2")
    \/ ReturnFindBook("p2") \/ ReturnUpdateBook("p2") \/ ReturnUpdateReservation("p2")
    \/ ReturnEmail("p2")
    \/ Return("p2")

\* every job fires again and again on its schedule, and a job that has started
\* runs to its end
LiveFairness ==
    /\ \A op \in SweepOps : WF_vars(ScheduledSweep("p1", op))
    /\ WF_vars(JobStep("p1"))

LiveSpec == LiveInit /\ [][LiveNext]_vars /\ LiveFairness

\* the promotion pass of p writes the reservation it is at
PromoteWrites(p) ==
    /\ PromoteNext(p)
    /\ reservationDB' = [reservationDB EXCEPT
                           ![Head(loc[p].queue).rid] = MarkAsLate(Head(loc[p].queue).res, now)]

\* reservation i is ACTIVE, not returned and past its dueDate
Overdue(i) ==
    /\ reservationDB[i].status = "ACTIVE"
    /\ reservationDB[i].returnDate = NoDate
    /\ reservationDB[i].dueDate < now

\* reservation i is persisted LATE with the fee of the fee function
Promoted(i) ==
    /\ reservationDB[i].status = "LATE"
    /\ reservationDB[i].lateFee = LateFeeFunction(reservationDB[i].dueDate, now)

Returned(i) == reservationDB[i].status \in FinalStatuses

DueForPurchase(p) ==
    LET res == Head(loc[p].queue).res
    IN /\ res.status = "LATE"
       /\ CalculateCurrentLateFee(res, now) >= retailPrice[res.bookId]

\* C30: the purchase-conversion sweep converts a reservation if and only if, when it
\* is processed, its status is LATE and its current late fee is greater than or
\* equal to the retail price; a converted reservation is persisted with status
\* CONVERTED_TO_PURCHASE and lateFee equal to the retail price and gets one
\* purchase-conversion notification, and every other reservation is left unchanged.
C30_ConvertsIffLateAndFeeReachesPrice ==
    [][\A p \in Procs :
          (SweepNext(p) /\ call[p].op = "checkForBooksToPurchase") =>
             LET head == Head(loc[p].queue)
                 price == retailPrice[head.res.bookId]
             IN /\ \A j \in DOMAIN reservationDB \ {head.rid} :
                      reservationDB'[j] = reservationDB[j]
                /\ IF DueForPurchase(p)
                   THEN /\ reservationDB'[head.rid] =
                              [head.res EXCEPT !.status = "CONVERTED_TO_PURCHASE",
                                               !.lateFee = price]
                        /\ loc'[p].sent = loc[p].sent + 1
                        /\ head.rid \in loc'[p].sentTo
                   ELSE /\ reservationDB'[head.rid] = reservationDB[head.rid]
                        /\ loc'[p].sent = loc[p].sent]_vars

\* ------------------------------------------------------------------ the purchase check
\* dueDates whose late fee for b2 has reached its retail price, or reaches it at
\* the next tick
PurchaseDueDates == {Days(0 - MaxLateDays), Days(1 - MaxLateDays)}

PurchaseInit ==
    /\ now = 0
    /\ walletDB = InitBalance
    /\ bookDB = [InitBooks EXCEPT !["b2"].availableCopies = @ - 1]
    /\ \E d \in PurchaseDueDates : reservationDB = <<SeededReservation("u1", "b2", d)>>
    /\ pc = [p \in Procs |-> "idle"]
    /\ call = [p \in Procs |-> NoCall]
    /\ loc = [p \in Procs |-> NoLoc]
    /\ pre = [p \in Procs |-> NoPre]
    /\ expected = InitBalance
    /\ lateCharged = [r \in 1..MaxRes |-> 0]
    /\ calls = MaxLiveCalls

\* p1 is the purchase check of the scheduler, p2 serves the returnBook requests
PurchaseNext ==
    \/ Tick
    \/ ScheduledSweep("p1", "checkForBooksToPurchase")
    \/ JobStep("p1")
    \/ \E r \in DOMAIN reservationDB : StartReturn("p2", r)
    \/ ReturnFindWallet("p2") \/ ReturnUpdateWallet("p2")
    \/ ReturnFindBook("p2") \/ ReturnUpdateBook("p2") \/ ReturnUpdateReservation("p2")
    \/ ReturnEmail("p2")
    \/ Return("p2")

\* the purchase check fires again and again on its schedule, a job that has
\* started runs to its end, and time advances
PurchaseFairness ==
    /\ WF_vars(ScheduledSweep("p1", "checkForBooksToPurchase"))
    /\ WF_vars(JobStep("p1"))
    /\ WF_vars(Tick)

PurchaseSpec == PurchaseInit /\ [][PurchaseNext]_vars /\ PurchaseFairness

\* the purchase check of p writes the conversion of the reservation it is at
ConvertWrites(p) ==
    /\ SweepNext(p)
    /\ call[p].op = "checkForBooksToPurchase"
    /\ reservationDB'[Head(loc[p].queue).rid].status = "CONVERTED_TO_PURCHASE"

\* reservation i is out, not returned, and its accrued late fee has reached the
\* retail price
FeeReachedPrice(i) ==
    /\ reservationDB[i].status \in {"ACTIVE", "LATE"}
    /\ reservationDB[i].returnDate = NoDate
    /\ LateFeeFunction(reservationDB[i].dueDate, now) >= retailPrice[reservationDB[i].bookId]

DueSoonAt(res, t) ==
    /\ res.status \in {"ACTIVE", "LATE"}
    /\ ~res.reminderSent
    /\ res.returnDate = NoDate
    /\ res.dueDate >= StartOfDay(t)
    /\ res.dueDate < StartOfDay(t) + Days(DueSoonDays + 1)

\* C32: the due-soon sweep dispatches a due-reminder notification only for a
\* reservation that at selection time has status ACTIVE or LATE, reminderSent =
\* false, no returnDate and a dueDate from today to the day 2 days ahead; after a
\* successful dispatch the reservation is persisted with reminderSent = true and an
\* otherwise unchanged status, dueDate and lateFee.
C32_DueReminderSetsTheFlagOnly ==
    [][\A p \in Procs :
          ( /\ SweepNext(p)
            /\ call[p].op = "sendDueReminders"
            /\ loc'[p].sent = loc[p].sent + 1 )
          => LET head == Head(loc[p].queue)
             IN /\ DueSoonAt(head.res, now)
                /\ reservationDB'[head.rid] =
                      [reservationDB[head.rid] EXCEPT !.reminderSent = TRUE]]_vars

\* ------------------------------------------------------------------ the late reminder
\* dueDates around the cutoff of the late reminder: 7 days back and half a day to
\* each side of it
LateReminderDueDates ==
    {Days(0 - LateReminderDays) - 1, Days(0 - LateReminderDays),
     Days(0 - LateReminderDays) + 1}

ReminderInit ==
    /\ now \in 0..MaxTime
    /\ walletDB = InitBalance
    /\ bookDB = [InitBooks EXCEPT !["b2"].availableCopies = @ - 1]
    /\ \E d \in LateReminderDueDates :
          reservationDB = <<SeededReservation("u1", "b2", d)>>
    /\ pc = [p \in Procs |-> "idle"]
    /\ call = [p \in Procs |-> NoCall]
    /\ loc = [p \in Procs |-> NoLoc]
    /\ pre = [p \in Procs |-> NoPre]
    /\ expected = InitBalance
    /\ lateCharged = [r \in 1..MaxRes |-> 0]
    /\ calls = MaxJobRuns

ReminderSpec == ReminderInit /\ [][JobNext]_vars

\* C33: the late-reminder sweep dispatches a late-reminder notification only for a
\* reservation whose dueDate lies more than 7 full days before the time of the
\* sweep (and whose status is ACTIVE or LATE, lateReminderSent = false, no
\* returnDate); a reservation overdue by 7 days or less never receives one.
C33_LateReminderAfterSevenDays ==
    [][\A p \in Procs :
          ( /\ SweepNext(p)
            /\ call[p].op = "sendLateReminders"
            /\ loc'[p].sent = loc[p].sent + 1 )
          => LET res == Head(loc[p].queue).res
             IN /\ now - res.dueDate > Days(LateReminderDays)
                /\ res.status \in {"ACTIVE", "LATE"}
                /\ ~res.lateReminderSent
                /\ res.returnDate = NoDate]_vars

\* ------------------------------------------------------------------ the duplicate guard
\* the reservation of b2 that u1 has, in each status the program persists
DuplicateSeeds ==
    LET held == HeldReservation("u1", "b2")
        late == MarkAsLate(SeededReservation("u1", "b2", Days(0 - MaxLateDays)), 0)
    IN {held, late, MarkAsReturned(held, 0).val,
        ConvertToPurchase(late, retailPrice["b2"], 0).val}

\* u1 holds b3, or b3 and b4, and has a reservation of b2
DuplicateInit ==
    /\ now = 0
    /\ walletDB = InitBalance
    /\ \E r \in DuplicateSeeds :
          /\ \/ reservationDB = <<HeldReservation("u1", "b3"), r>>
             \/ reservationDB = <<HeldReservation("u1", "b3"),
                                  HeldReservation("u1", "b4"), r>>
          /\ bookDB = [b \in Books \cup HeldBooks |->
                          IF b = "b1" THEN InitBooks[b]
                          ELSE IF b = "b2" /\ r.status = "RETURNED" THEN InitBooks[b]
                          ELSE [totalCopies |-> 2, availableCopies |-> 1]]
    /\ pc = [p \in Procs |-> "idle"]
    /\ call = [p \in Procs |-> NoCall]
    /\ loc = [p \in Procs |-> NoLoc]
    /\ pre = [p \in Procs |-> NoPre]
    /\ expected = InitBalance
    /\ lateCharged = [r \in 1..MaxRes |-> 0]
    /\ calls = MaxLimitCalls

DuplicateNext ==
    \E p \in Procs :
        \/ \E u \in WalletOwners, b \in Books, f \in HexForms :
              RoomFor(Cardinality(HeldBooks) + 1 + MaxRes) /\ StartCreateAs(p, u, b, f)
        \/ CreateFindBook(p) \/ CreateFindActive(p)
        \/ CreateFindWallet(p) \/ CreateUpdateWallet(p) \/ CreateUpdateBook(p)
        \/ CreateSave(p) \/ CreateEmail(p)
        \/ Return(p)

DuplicateSpec == DuplicateInit /\ [][DuplicateNext]_vars

\* the user of the request of p has the item of the request in an active status
HoldsTheItem(p) ==
    \E i \in DOMAIN reservationDB :
        /\ reservationDB[i].userId = call[p].userId
        /\ reservationDB[i].bookId = call[p].bookId
        /\ reservationDB[i].status \in ActiveStatuses

\* C34: given that the user and item guards pass, createReservation fails with the
\* duplicate-borrow error if and only if the user has a reservation for the same
\* item in status PENDING, ACTIVE or LATE; a reservation of that item in status
\* RETURNED or CONVERTED_TO_PURCHASE does not block a new borrow, and a duplicate
\* is reported as duplicate even when the user already holds 3 active reservations.
C34_DuplicateIffHeld ==
    [][\A p \in Procs :
          CreateFindActive(p) =>
             ((call'[p].result = "User already has this book") <=> HoldsTheItem(p))]_vars

\* ------------------------------------------------------------------ the HTTP handler
\* the status with which the handler of createReservation answers the result of
\* the service
CreateReservationStatus(result) ==
    IF result = "ok" THEN 201
    ELSE IF result \in {"Book not found", "User not found"} THEN 404
    ELSE IF result = "Book is not available for reservation" THEN 400
    ELSE IF result = "User already has this book" THEN 400
    ELSE IF result = "User has reached the maximum number of books allowed" THEN 400
    ELSE IF result = "Insufficient funds" THEN 400
    ELSE 500

\* C35: for every guard failure of createReservation (user not found, user
\* inactive, item not found, item unavailable, item already held, borrow limit
\* reached, wallet not found, insufficient funds) the HTTP handler answers with a
\* client-error status (4xx) carrying that reason, and never with the opaque 500.
C35_GuardFailureIsClientError ==
    \A p \in Procs :
        (pc[p] = "done" /\ call[p].op = "createReservation"
                        /\ call[p].result \in GuardErrors)
        => CreateReservationStatus(call[p].result) \in 400..499

\* the reservations of item b whose status is in S
ReservationsOf(b, S) ==
    {i \in DOMAIN reservationDB :
        reservationDB[i].bookId = b /\ reservationDB[i].status \in S}

\* C36: copy conservation: starting from an item with availableCopies =
\* totalCopies and no reservations, in every state reached by sequential
\* createReservation, returnBook and sweep operations, the item's persisted
\* availableCopies plus the number of its reservations in status ACTIVE or LATE
\* plus the number of its reservations in status CONVERTED_TO_PURCHASE equals
\* totalCopies; hence the copies out on loan never exceed totalCopies.
C36_CopyConservation ==
    (\A p \in Procs : pc[p] \in {"idle", "done"})
        => \A b \in DOMAIN bookDB :
              bookDB[b].availableCopies
                + Cardinality(ReservationsOf(b, {"ACTIVE", "LATE"}))
                + Cardinality(ReservationsOf(b, {"CONVERTED_TO_PURCHASE"}))
              = bookDB[b].totalCopies

\* ------------------------------------------------------------------ two returns
ReturnDueDates == {Days(0 - 1), Days(1)}

\* u1 and u2 each hold one of the 3 copies of b2
ReturnInit ==
    /\ now = 0
    /\ walletDB = InitBalance
    /\ bookDB = [InitBooks EXCEPT !["b2"] = [totalCopies |-> 3, availableCopies |-> 1]]
    /\ \E d \in ReturnDueDates :
          reservationDB = <<SeededReservation("u1", "b2", d), HeldReservation("u2", "b2")>>
    /\ pc = [p \in Procs |-> "idle"]
    /\ call = [p \in Procs |-> NoCall]
    /\ loc = [p \in Procs |-> NoLoc]
    /\ pre = [p \in Procs |-> NoPre]
    /\ expected = InitBalance
    /\ lateCharged = [r \in 1..MaxRes |-> 0]
    /\ calls = MaxConcCalls

ReturnNext ==
    \E p \in Procs :
        \/ \E r \in DOMAIN reservationDB : StartReturn(p, r)
        \/ ReturnFindWallet(p) \/ ReturnUpdateWallet(p)
        \/ ReturnFindBook(p) \/ ReturnUpdateBook(p) \/ ReturnUpdateReservation(p)
        \/ ReturnEmail(p)
        \/ Return(p)

ReturnSpec == ReturnInit /\ [][ReturnNext]_vars

\* p started returning a reservation while nothing was in flight, and q started
\* returning the same reservation before p was over
ReturningTheSame(p, q) ==
    /\ p # q
    /\ call[p].op = "returnBook" /\ call[q].op = "returnBook"
    /\ call[p].rid = call[q].rid
    /\ call[p].rid \in DOMAIN reservationDB
    /\ pre[p] # NoPre
    /\ pre[q] = NoPre

\* C37: when two returnBook invocations for the same ACTIVE or LATE reservation are
\* interleaved at the granularity of their persistence reads and writes, the late
\* fee is withdrawn from the user's wallet at most once and the item's
\* availableCopies is incremented at most once.
C37_ReturnedOnce ==
    \A p, q \in Procs :
        ReturningTheSame(p, q) =>
            LET b == reservationDB[call[p].rid].bookId
            IN /\ ~(loc[p].charged > 0 /\ loc[q].charged > 0)
               /\ bookDB[b].availableCopies <= pre[p].bookDB[b].availableCopies + 1

\* C38: the reminder flags are monotone: once a reservation's persisted
\* reminderSent (or lateReminderSent) is true it never becomes false again, for
\* every interleaving of the sweeps with forceDueDate and returnBook on the same
\* reservation.
C38_ReminderFlagsMonotone ==
    [][\A i \in DOMAIN reservationDB :
          /\ reservationDB[i].reminderSent => reservationDB'[i].reminderSent
          /\ reservationDB[i].lateReminderSent => reservationDB'[i].lateReminderSent]_vars


====
